---- MODULE Spec2Model ----
(***************************************************************************)
(* Model of the in-memory vector store ChromaVectorDB of src/core/Chroma.py *)
(* (record store, change notifier, batch coordinator).                      *)
(*                                                                          *)
(* _items is a Python dict: it is modelled as a sequence of records with    *)
(* pairwise distinct ids, in the dict's insertion order.  Optional          *)
(* arguments (Optional[...] = None) are modelled as sets of at most one     *)
(* element: None is the empty set, a supplied value x is {x}.  A metadata   *)
(* mapping is the set of its <<key, value>> pairs.                          *)
(***************************************************************************)
EXTENDS Integers, Sequences, FiniteSets, TLC

(* ---------------------------- bounds ----------------------------------- *)

\* the largest value the model gives to ConfigSingleton.max_items (10000 in
\* the code): a store is constructed with a capacity in 1..MaxItems
MaxItems == 3

\* longest observer list the model subscribes
MaxObservers == 2

\* longest input sequence the model hands to batch_add
MaxBatch == 2

\* largest top_k the model queries with
MaxTopK == 3

(* ---------------------------- inputs ----------------------------------- *)

\* the embedding_dim the store is constructed with
EmbeddingDim == 2

Ids == {"a", "b", "c"}

\* vectors of the right length
GoodVectors == {<<1, 0>>, <<0, 1>>}

\* vectors that are too short and too long
BadVectors == {<<1>>, <<1, 0, 1>>}

Vectors == GoodVectors \cup BadVectors

EmptyMeta == {}

Metas == {EmptyMeta, {<<"k1", 1>>}}

None == {}

\* F(x), x being evaluated once
With(x, F(_)) == CHOOSE y \in {F(v) : v \in {x}} : TRUE

Some(x) == {x}

TheVal(opt) == CHOOSE x \in opt : TRUE

OptVectors == {None} \cup {Some(v) : v \in Vectors}

OptMetas == {None} \cup {Some(m) : m \in Metas}

\* the dicts batch_add is called with: "id", "vector" and an optional "metadata"
BatchItems ==
    { [id |-> "a", vector |-> <<1, 0>>, metadata |-> Some({<<"k1", 1>>})],
      [id |-> "b", vector |-> <<0, 1>>, metadata |-> None],
      [id |-> "c", vector |-> <<1, 0>>, metadata |-> Some(EmptyMeta)],
      [id |-> "b", vector |-> <<1>>,    metadata |-> Some({<<"k1", 1>>})] }

\* the vectors query is called with: right length (the zero vector among
\* them) and wrong length
QueryVectors == {<<1, 0>>, <<1, 1>>, <<0, 0>>, <<1>>}

\* top_k is an int: negative, zero and positive values
TopKs == (-1)..MaxTopK

\* the metadata predicates query is called with
\*   has_k1:   lambda metadata: "k1" in metadata
\*   is_empty: lambda metadata: len(metadata) == 0
Filters == {"has_k1", "is_empty"}

OptFilters == {None} \cup {Some(f) : f \in Filters}

\* the values the model gives to ConfigSingleton.similarity_threshold
Thresholds == {[num |-> 0, den |-> 1], [num |-> 4, den |-> 5]}

RECURSIVE SeqsUpTo(_, _)
SeqsUpTo(S, n) ==
    IF n = 0 THEN {<<>>}
    ELSE LET shorter == SeqsUpTo(S, n - 1)
         IN  shorter \cup {Append(s, x) : s \in {t \in shorter : Len(t) = n - 1}, x \in S}

\* three items of the right dimension and one of the wrong dimension, the
\* wrong one at each of the four places
MixedBatches ==
    LET good1 == [id |-> "a", vector |-> <<1, 0>>, metadata |-> Some({<<"k1", 1>>})]
        good2 == [id |-> "b", vector |-> <<0, 1>>, metadata |-> None]
        good3 == [id |-> "c", vector |-> <<1, 0>>, metadata |-> Some(EmptyMeta)]
        bad   == [id |-> "b", vector |-> <<1>>,    metadata |-> Some({<<"k1", 1>>})]
    IN  { <<bad, good1, good2, good3>>, <<good1, bad, good2, good3>>,
          <<good1, good2, bad, good3>>, <<good1, good2, good3, bad>> }

BatchInputs == SeqsUpTo(BatchItems, MaxBatch) \cup MixedBatches

(* ---------------------------- state ------------------------------------ *)

VARIABLES
    embedding_dim,   \* self.embedding_dim
    config,          \* the ConfigSingleton instance behind self._config
    _items,          \* self._items, in insertion order
    _observers,      \* self._observers, in subscription order
    similarity_strategy,  \* self.similarity_strategy
    delivered,       \* per observer: the events it received during the last call
    pre_items,       \* history: _items when the last call started
    last,            \* history: the call that has just returned, its arguments and
                     \* its outcome; Idle between two calls
    threads          \* per caller thread: the call it is running concurrently
                     \* with the other's, its position in the method and its locals

vars == <<embedding_dim, config, _items, _observers, similarity_strategy,
          delivered, pre_items, last, threads>>

(* ---------------------------- dict operations -------------------------- *)

Keys(items) == {items[i].id : i \in 1..Len(items)}

IndexOf(items, id) == CHOOSE i \in 1..Len(items) : items[i].id = id

\* dict.get(id): the item or None
DictGet(items, id) ==
    IF id \in Keys(items) THEN Some(items[IndexOf(items, id)]) ELSE None

\* d[id] = item: an existing key keeps its position, a new key goes last
DictSet(items, id, item) ==
    IF id \in Keys(items)
    THEN [items EXCEPT ![IndexOf(items, id)] = item]
    ELSE Append(items, item)

\* del d[id]
DictDel(items, id) == SelectSeq(items, LAMBDA it : it.id # id)

(* ---------------------------- ConfigSingleton -------------------------- *)

\* a similarity threshold is the fraction num / den
DefaultThreshold == [num |-> 4, den |-> 5]

ConfigSingleton(max_items) ==
    [max_items |-> max_items, similarity_threshold |-> DefaultThreshold]

\* the values the singleton holds when the store of SpecCfg is constructed
ConstructionConfig == ConfigSingleton(MaxItems)

(* ---------------------------- strategies ------------------------------- *)

CosineSimilarity == "cosine"

EuclideanSimilarity == "euclidean"

(* ---------------------------- VectorItem ------------------------------- *)

\* metadata or {}: None and the empty dict are falsy
MetadataOrEmpty(metadata) ==
    IF metadata = None THEN EmptyMeta
    ELSE IF TheVal(metadata) = {} THEN EmptyMeta
    ELSE TheVal(metadata)

\* mutant: the constructor forgets the metadata it is given
VectorItem_drops_metadata(id, vector, metadata) ==
    [id |-> id, vector |-> vector, metadata |-> EmptyMeta, created_at |-> "2026-02-09"]

VectorItem(id, vector, metadata) ==
    [id |-> id, vector |-> vector, metadata |-> MetadataOrEmpty(metadata),
     created_at |-> "2026-02-09"]

(* ---------------------------- outcomes --------------------------------- *)

NoExc == "none"

ValueError == "ValueError"

RuntimeError == "RuntimeError"

ObserverError == "ObserverError"

DimensionMsg == "Vector dimension must be {embedding_dim}"

CapacityMsg == "Database capacity reached"

ObserverMsg == "observer raised"

(* ---------------------------- observers -------------------------------- *)

\* LoggingObserver prints and returns; a "raising" observer's callback raises
LoggingObserver == "log"

RaisingObserver == "raise"

\* nobody received anything
NoDeliveries(observers) == [i \in 1..Len(observers) |-> <<>>]

\* the index of the first observer whose callback raises, Len + 1 if none does
FirstRaising(observers) ==
    IF \E i \in 1..Len(observers) : observers[i] = RaisingObserver
    THEN CHOOSE i \in 1..Len(observers) :
            /\ observers[i] = RaisingObserver
            /\ \A j \in 1..(i - 1) : observers[j] # RaisingObserver
    ELSE Len(observers) + 1

\* for observer in self._observers: observer.on_data_change(event_type, data)
\* mutant: the observers are called from the last subscribed to the first
_notify_observers_reversed(items, observers, event_type, data) ==
    [delivered |-> [i \in 1..Len(observers) |->
                      <<[type |-> event_type, data |-> data,
                         turn |-> Len(observers) + 1 - i, seen |-> items]>>],
     raised    |-> FALSE]

\* an observer called as the turn-th of the loop receives the event while the
\* dict is `items` (seen)
_notify_observers(items, observers, event_type, data) ==
    LET stop == FirstRaising(observers)
    IN  [delivered |-> [i \in 1..Len(observers) |->
                          IF i <= stop
                          THEN <<[type |-> event_type, data |-> data,
                                  turn |-> i, seen |-> items]>>
                          ELSE <<>>],
         raised    |-> stop <= Len(observers)]

(* ---------------------------- ChromaVectorDB --------------------------- *)

\* mutant: only a vector that is too long is refused
DimensionMismatch_only_longer(vector) == Len(vector) > embedding_dim

\* len(vector) != self.embedding_dim
DimensionMismatch(vector) == Len(vector) # embedding_dim

\* mutant: off by one, > instead of >=
CapacityReached_off_by_one(items) == Len(items) > config.max_items

\* len(self._items) >= self._config.max_items
\* mutant: the store compares with the capacity it found at construction
CapacityReached_at_construction(items) == Len(items) >= ConstructionConfig.max_items

CapacityReached(items) == Len(items) >= config.max_items

\* what a call leaves behind: the dict, the deliveries, the return value and
\* the exception that left the call (NoExc when it returned)
Outcome(items, deliv, ret, exc, msg) ==
    [items |-> items, delivered |-> deliv, ret |-> ret, exc |-> exc, msg |-> msg]

\* the tail of a mutating call: notify, then return ret unless an observer raised
NotifyAndReturn(items, observers, event_type, data, ret) ==
    LET n == _notify_observers(items, observers, event_type, data)
    IN  IF n.raised
        THEN Outcome(items, n.delivered, "raised", ObserverError, ObserverMsg)
        ELSE Outcome(items, n.delivered, ret, NoExc, "")

\* mutant: an id that is already stored may be overwritten in a full store
add_call_overwrite_when_full(items, observers, id, vector, metadata) ==
    IF DimensionMismatch(vector)
    THEN Outcome(items, NoDeliveries(observers), "raised", ValueError, DimensionMsg)
    ELSE IF CapacityReached(items) /\ id \notin Keys(items)
    THEN Outcome(items, NoDeliveries(observers), "raised", RuntimeError, CapacityMsg)
    ELSE NotifyAndReturn(DictSet(items, id, VectorItem(id, vector, metadata)),
                         observers, "add", [id |-> id, metadata |-> metadata], "True")

\* mutant: an id that is already stored is refused as a duplicate
add_call_rejects_duplicate(items, observers, id, vector, metadata) ==
    IF DimensionMismatch(vector)
    THEN Outcome(items, NoDeliveries(observers), "raised", ValueError, DimensionMsg)
    ELSE IF CapacityReached(items)
    THEN Outcome(items, NoDeliveries(observers), "raised", RuntimeError, CapacityMsg)
    ELSE IF id \in Keys(items)
    THEN Outcome(items, NoDeliveries(observers), "raised", ValueError, "Duplicate id")
    ELSE NotifyAndReturn(DictSet(items, id, VectorItem(id, vector, metadata)),
                         observers, "add", [id |-> id, metadata |-> metadata], "True")

\* mutant: the observers are told of the record before it is stored
add_call_notifies_first(items, observers, id, vector, metadata) ==
    IF DimensionMismatch(vector)
    THEN Outcome(items, NoDeliveries(observers), "raised", ValueError, DimensionMsg)
    ELSE IF CapacityReached(items)
    THEN Outcome(items, NoDeliveries(observers), "raised", RuntimeError, CapacityMsg)
    ELSE Outcome(DictSet(items, id, VectorItem(id, vector, metadata)),
                 _notify_observers(items, observers, "add",
                                   [id |-> id, metadata |-> metadata]).delivered,
                 "True", NoExc, "")

\* mutant: the capacity is checked before the dimension
add_call_capacity_first(items, observers, id, vector, metadata) ==
    IF CapacityReached(items)
    THEN Outcome(items, NoDeliveries(observers), "raised", RuntimeError, CapacityMsg)
    ELSE IF DimensionMismatch(vector)
    THEN Outcome(items, NoDeliveries(observers), "raised", ValueError, DimensionMsg)
    ELSE NotifyAndReturn(DictSet(items, id, VectorItem(id, vector, metadata)),
                         observers, "add", [id |-> id, metadata |-> metadata], "True")

\* ChromaVectorDB.add on the dict `items`
add_call(items, observers, id, vector, metadata) ==
    IF DimensionMismatch(vector)
    THEN Outcome(items, NoDeliveries(observers), "raised", ValueError, DimensionMsg)
    ELSE IF CapacityReached(items)
    THEN Outcome(items, NoDeliveries(observers), "raised", RuntimeError, CapacityMsg)
    ELSE NotifyAndReturn(DictSet(items, id, VectorItem(id, vector, metadata)),
                         observers, "add", [id |-> id, metadata |-> metadata], "True")

\* the vector an update leaves in the item
UpdatedVector(item, vector) ==
    IF vector # None THEN TheVal(vector) ELSE item.vector

\* mutant: the new mapping is merged into the old one (dict.update)
UpdatedMetadata_merged(item, metadata) ==
    IF metadata # None
    THEN TheVal(metadata) \cup
         {kv \in item.metadata : \A new \in TheVal(metadata) : new[1] # kv[1]}
    ELSE item.metadata

\* the metadata an update leaves in the item: replaced when metadata is not None
UpdatedMetadata(item, metadata) ==
    IF metadata # None THEN TheVal(metadata) ELSE item.metadata

\* mutant: the vector is validated before the id is looked up
update_call_validates_first(items, observers, id, vector, metadata) ==
    IF vector # None /\ DimensionMismatch(TheVal(vector))
    THEN Outcome(items, NoDeliveries(observers), "raised", ValueError, DimensionMsg)
    ELSE IF id \notin Keys(items)
    THEN Outcome(items, NoDeliveries(observers), "False", NoExc, "")
    ELSE LET item == items[IndexOf(items, id)]
         IN  NotifyAndReturn(
                     [items EXCEPT ![IndexOf(items, id)] =
                        [item EXCEPT !.vector = UpdatedVector(item, vector),
                                     !.metadata = UpdatedMetadata(item, metadata)]],
                     observers, "update", [id |-> id], "True")

\* mutant: the metadata is assigned before the vector is validated
update_call_metadata_first(items, observers, id, vector, metadata) ==
    IF id \notin Keys(items)
    THEN Outcome(items, NoDeliveries(observers), "False", NoExc, "")
    ELSE LET item == items[IndexOf(items, id)]
         IN  IF vector # None /\ DimensionMismatch(TheVal(vector))
             THEN Outcome([items EXCEPT ![IndexOf(items, id)] =
                             [item EXCEPT !.metadata = UpdatedMetadata(item, metadata)]],
                          NoDeliveries(observers), "raised", ValueError, DimensionMsg)
             ELSE NotifyAndReturn(
                     [items EXCEPT ![IndexOf(items, id)] =
                        [item EXCEPT !.vector = UpdatedVector(item, vector),
                                     !.metadata = UpdatedMetadata(item, metadata)]],
                     observers, "update", [id |-> id], "True")

\* ChromaVectorDB.update on the dict `items`
update_call(items, observers, id, vector, metadata) ==
    IF id \notin Keys(items)
    THEN Outcome(items, NoDeliveries(observers), "False", NoExc, "")
    ELSE LET item == items[IndexOf(items, id)]
         IN  IF vector # None /\ DimensionMismatch(TheVal(vector))
             THEN Outcome(items, NoDeliveries(observers), "raised", ValueError, DimensionMsg)
             ELSE NotifyAndReturn(
                     [items EXCEPT ![IndexOf(items, id)] =
                        [item EXCEPT !.vector = UpdatedVector(item, vector),
                                     !.metadata = UpdatedMetadata(item, metadata)]],
                     observers, "update", [id |-> id], "True")

\* mutant: the record is removed without telling the observers
delete_call_no_event(items, observers, id) ==
    IF id \notin Keys(items)
    THEN Outcome(items, NoDeliveries(observers), "False", NoExc, "")
    ELSE Outcome(DictDel(items, id), NoDeliveries(observers), "True", NoExc, "")

\* ChromaVectorDB.delete on the dict `items`
delete_call(items, observers, id) ==
    IF id \notin Keys(items)
    THEN Outcome(items, NoDeliveries(observers), "False", NoExc, "")
    ELSE NotifyAndReturn(DictDel(items, id), observers, "delete", [id |-> id], "True")

\* mutant: clear removes the records one by one and tells the observers of
\* each removal
clear_call_event_per_record(observers) ==
    Outcome(<<>>,
            [i \in 1..Len(observers) |->
               [k \in 1..Len(_items) |->
                  [type |-> "clear", data |-> [message |-> "Database cleared"],
                   turn |-> i, seen |-> <<>>]]],
            "None", NoExc, "")

\* ChromaVectorDB.clear
clear_call(observers) ==
    NotifyAndReturn(<<>>, observers, "clear", [message |-> "Database cleared"], "None")

\* one iteration of batch_add's loop: add inside try/except Exception
BatchStep(acc, observers, item) ==
    LET r == add_call(acc.items, observers, item.id, item.vector, item.metadata)
    IN  [items         |-> r.items,
         delivered     |-> [i \in 1..Len(observers) |-> acc.delivered[i] \o r.delivered[i]],
         success_count |-> IF r.exc = NoExc THEN acc.success_count + 1
                           ELSE acc.success_count,
         failed_items  |-> IF r.exc = NoExc THEN acc.failed_items
                           ELSE Append(acc.failed_items, [id |-> item.id, error |-> r.msg])]

\* mutant: the loop is left at the first item that fails
RECURSIVE BatchLoop_stops_at_failure(_, _, _)
BatchLoop_stops_at_failure(acc, observers, todo) ==
    IF todo = <<>> \/ acc.failed_items # <<>> THEN acc
    ELSE BatchLoop_stops_at_failure(BatchStep(acc, observers, Head(todo)), observers,
                                    Tail(todo))

\* mutant: the items are taken from the last to the first
RECURSIVE BatchLoop_reversed(_, _, _)
BatchLoop_reversed(acc, observers, todo) ==
    IF todo = <<>> THEN acc
    ELSE BatchLoop_reversed(BatchStep(acc, observers, todo[Len(todo)]), observers,
                            SubSeq(todo, 1, Len(todo) - 1))

RECURSIVE BatchLoop(_, _, _)
BatchLoop(acc, observers, todo) ==
    IF todo = <<>> THEN acc
    ELSE BatchLoop(BatchStep(acc, observers, Head(todo)), observers, Tail(todo))

\* ChromaVectorDB.batch_add on the dict `items`
batch_add_call(items, observers, batch) ==
    BatchLoop([items |-> items, delivered |-> NoDeliveries(observers),
               success_count |-> 0, failed_items |-> <<>>], observers, batch)

(* ---------------------------- SimilarityStrategy ----------------------- *)

\* np.dot of two vectors of the same length
RECURSIVE Dot(_, _)
Dot(a, b) == IF a = <<>> THEN 0 ELSE Head(a) * Head(b) + Dot(Tail(a), Tail(b))

\* np.linalg.norm(a) squared
NormSq(a) == Dot(a, a)

\* np.linalg.norm(a - b) squared
RECURSIVE DistSq(_, _)
DistSq(a, b) ==
    IF a = <<>> THEN 0
    ELSE (Head(a) - Head(b)) * (Head(a) - Head(b)) + DistSq(Tail(a), Tail(b))

\* CosineSimilarity.calculate: the float a / sqrt(b), 0.0 when a norm is zero
CosineScore(vector1, vector2) ==
    IF NormSq(vector1) = 0 \/ NormSq(vector2) = 0
    THEN [kind |-> CosineSimilarity, a |-> 0, b |-> 1]
    ELSE [kind |-> CosineSimilarity, a |-> Dot(vector1, vector2),
          b |-> NormSq(vector1) * NormSq(vector2)]

\* EuclideanSimilarity.calculate: the float 1 / (1 + sqrt(b))
EuclideanScore(vector1, vector2) ==
    [kind |-> EuclideanSimilarity, a |-> 1, b |-> DistSq(vector1, vector2)]

\* self.similarity_strategy.calculate(vector1, vector2)
Calculate(vector1, vector2) ==
    IF similarity_strategy = CosineSimilarity
    THEN CosineScore(vector1, vector2)
    ELSE EuclideanScore(vector1, vector2)

\* x * |x|: increasing in x, so that a / sqrt(b) is compared without the root
SignedSq(x) == IF x >= 0 THEN x * x ELSE 0 - x * x

\* s >= t for two scores of the same strategy
ScoreGE(s, t) ==
    IF s.kind = CosineSimilarity
    THEN SignedSq(s.a) * t.b >= SignedSq(t.a) * s.b
    ELSE s.b <= t.b

\* s > t
ScoreGT(s, t) == ~ScoreGE(t, s)

\* similarity >= threshold, the threshold being num / den with 0 <= num, 0 < den
AtLeast(s, threshold) ==
    IF s.kind = CosineSimilarity
    THEN SignedSq(s.a) * threshold.den * threshold.den
            >= threshold.num * threshold.num * s.b
    ELSE \/ threshold.num = 0
         \/ /\ threshold.den >= threshold.num
            /\ threshold.num * threshold.num * s.b
                  <= (threshold.den - threshold.num) * (threshold.den - threshold.num)

(* ---------------------------- query ------------------------------------ *)

\* filter(item.metadata)
FilterAccepts(f, metadata) ==
    IF f = "has_k1" THEN \E kv \in metadata : kv[1] = "k1"
    ELSE metadata = {}

\* mutant: the filter is applied the wrong way round
Skipped_inverted(filter, metadata) ==
    filter # None /\ FilterAccepts(TheVal(filter), metadata)

\* if filter and not filter(item.metadata): continue
Skipped(filter, metadata) ==
    filter # None /\ ~FilterAccepts(TheVal(filter), metadata)

\* similarity >= self._config.similarity_threshold
AboveThreshold(similarity) == AtLeast(similarity, config.similarity_threshold)

\* the loop of query: the entries of the records that are not skipped and
\* reach the threshold, in the order of the dict
Scan(items, query_vector, filter) ==
    LET entry(i) == [id |-> items[i].id,
                     similarity |-> Calculate(query_vector, items[i].vector),
                     metadata |-> items[i].metadata]
    IN  SelectSeq([i \in 1..Len(items) |-> entry(i)],
                  LAMBDA e : ~Skipped(filter, e.metadata) /\ AboveThreshold(e.similarity))

\* the place list.sort(reverse=True) gives to results[i]: after the entries
\* with a greater similarity and after the earlier entries with an equal one
\* (the sort is stable)
SortedPosition(results, i) ==
    Cardinality({j \in 1..Len(results) :
                   \/ ScoreGT(results[j].similarity, results[i].similarity)
                   \/ j <= i /\ ScoreGE(results[j].similarity, results[i].similarity)})

\* mutant: the list is sorted ascending and then reversed, which reverses the
\* entries of equal similarity
SortBySimilarity_ascending_reversed(results) ==
    With(results, LAMBDA r :
        [p \in 1..Len(r) |->
           r[CHOOSE i \in 1..Len(r) :
               Cardinality({j \in 1..Len(r) :
                   \/ ScoreGT(r[j].similarity, r[i].similarity)
                   \/ j >= i /\ ScoreGE(r[j].similarity, r[i].similarity)}) = p]])

\* results.sort(key=lambda x: x["similarity"], reverse=True)
SortBySimilarity(results) ==
    With(results, LAMBDA r :
        [p \in 1..Len(r) |-> r[CHOOSE i \in 1..Len(r) : SortedPosition(r, i) = p]])

\* results[:top_k], a Python slice: a negative top_k counts from the end
SliceTo(results, top_k) ==
    With(results, LAMBDA r :
        LET n    == Len(r)
            stop == IF top_k >= 0
                    THEN (IF top_k < n THEN top_k ELSE n)
                    ELSE (IF n + top_k > 0 THEN n + top_k ELSE 0)
        IN  SubSeq(r, 1, stop))

QueryMsg == "Query vector dimension must be {embedding_dim}"

\* what a query leaves behind: as Outcome, and the list it returns
QueryOutcome(items, deliv, ret, exc, msg, results) ==
    [items |-> items, delivered |-> deliv, ret |-> ret, exc |-> exc, msg |-> msg,
     results |-> results]

\* mutant: a query is announced to the observers like a mutation
query_call_notifies(items, observers, query_vector, top_k, filter) ==
    IF DimensionMismatch(query_vector)
    THEN QueryOutcome(items, NoDeliveries(observers), "raised", ValueError, QueryMsg, <<>>)
    ELSE QueryOutcome(items,
                      _notify_observers(items, observers, "query", [top_k |-> top_k]).delivered,
                      "results", NoExc, "",
                      SliceTo(SortBySimilarity(Scan(items, query_vector, filter)), top_k))

\* ChromaVectorDB.query on the dict `items`
query_call(items, observers, query_vector, top_k, filter) ==
    IF DimensionMismatch(query_vector)
    THEN QueryOutcome(items, NoDeliveries(observers), "raised", ValueError, QueryMsg, <<>>)
    ELSE QueryOutcome(items, NoDeliveries(observers), "results", NoExc, "",
                      SliceTo(SortBySimilarity(Scan(items, query_vector, filter)), top_k))

\* ChromaVectorDB.get
get(id) == DictGet(_items, id)

\* ChromaVectorDB.count
count == Len(_items)

(* ---------------------------- caller threads --------------------------- *)

Threads == {"t1", "t2"}

\* a thread that is in no call: pc is its position, the other fields are the
\* arguments and locals of the method it runs
NoCall ==
    [pc |-> "idle", op |-> "none", id |-> "", vector |-> None, metadata |-> None,
     top_k |-> 0, filter |-> None, pos |-> 0, similarity |-> None, seen_count |-> 0,
     results |-> <<>>, ret |-> "None", exc |-> NoExc]

NoThreads == [t \in Threads |-> NoCall]

(* ---------------------------- the calls -------------------------------- *)

NoReport == [success_count |-> 0, failed_count |-> 0, failed_items |-> <<>>]

Call(op, id, vector, metadata, batch, ret, exc, report) ==
    [op |-> op, id |-> id, vector |-> vector, metadata |-> metadata, batch |-> batch,
     ret |-> ret, exc |-> exc, report |-> report,
     top_k |-> 0, filter |-> None, results |-> <<>>]

\* no call is in progress and none has returned since the caller last looked
Idle == Call("idle", "", None, None, <<>>, "None", NoExc, NoReport)

Init ==
    /\ embedding_dim = EmbeddingDim
    /\ \E max_items \in 1..MaxItems : config = ConfigSingleton(max_items)
    /\ _items = <<>>
    /\ _observers = <<>>
    /\ similarity_strategy = CosineSimilarity
    /\ delivered = <<>>
    /\ pre_items = <<>>
    /\ last = Idle
    /\ threads = NoThreads

Finish(op, id, vector, metadata, r) ==
    /\ pre_items' = _items
    /\ _items' = r.items
    /\ delivered' = r.delivered
    /\ last' = Call(op, id, vector, metadata, <<>>, r.ret, r.exc, NoReport)
    /\ UNCHANGED <<embedding_dim, config, _observers, similarity_strategy, threads>>

add_observer(observer) ==
    /\ Len(_observers) < MaxObservers
    /\ _observers' = Append(_observers, observer)
    /\ delivered' = NoDeliveries(_observers')
    /\ pre_items' = _items
    /\ last' = Call("add_observer", "", None, None, <<>>, "None", NoExc, NoReport)
    /\ UNCHANGED <<embedding_dim, config, _items, similarity_strategy, threads>>

add(id, vector, metadata) ==
    Finish("add", id, Some(vector), metadata,
           add_call(_items, _observers, id, vector, metadata))

update(id, vector, metadata) ==
    Finish("update", id, vector, metadata,
           update_call(_items, _observers, id, vector, metadata))

delete(id) ==
    Finish("delete", id, None, None, delete_call(_items, _observers, id))

clear ==
    Finish("clear", "", None, None, clear_call(_observers))

batch_add(batch) ==
    LET r == batch_add_call(_items, _observers, batch)
    IN  /\ pre_items' = _items
        /\ _items' = r.items
        /\ delivered' = r.delivered
        /\ last' = Call("batch_add", "", None, None, batch, "report", NoExc,
                        [success_count |-> r.success_count,
                         failed_count  |-> Len(r.failed_items),
                         failed_items  |-> r.failed_items])
        /\ UNCHANGED <<embedding_dim, config, _observers, similarity_strategy, threads>>

query(query_vector, top_k, filter) ==
    \E r \in {query_call(_items, _observers, query_vector, top_k, filter)} :
        /\ pre_items' = _items
        /\ _items' = r.items
        /\ delivered' = r.delivered
        /\ last' = [Call("query", "", Some(query_vector), None, <<>>, r.ret, r.exc,
                         NoReport)
                      EXCEPT !.top_k = top_k, !.filter = filter, !.results = r.results]
        /\ UNCHANGED <<embedding_dim, config, _observers, similarity_strategy, threads>>

\* the caller has looked at the outcome of the call: the history variables
\* (last, pre_items, delivered) are reset, the store is left as it is
Return ==
    /\ last # Idle
    /\ last' = Idle
    /\ pre_items' = _items
    /\ delivered' = NoDeliveries(_observers)
    /\ UNCHANGED <<embedding_dim, config, _items, _observers, similarity_strategy, threads>>

\* a call is made when the previous one has returned and been looked at
Next ==
    \/ last = Idle /\ add_observer(LoggingObserver)
    \/ last = Idle /\ \E id \in Ids, vector \in Vectors, metadata \in OptMetas :
                         add(id, vector, metadata)
    \/ last = Idle /\ \E id \in Ids, vector \in OptVectors, metadata \in OptMetas :
                         update(id, vector, metadata)
    \/ last = Idle /\ \E id \in Ids : delete(id)
    \/ last = Idle /\ clear
    \/ last = Idle /\ \E batch \in BatchInputs : batch_add(batch)
    \/ Return

Spec == Init /\ [][Next]_vars

(* ---------------------------- the store under query --------------------- *)

\* a store of capacity MaxItems constructed with either strategy, under either
\* similarity threshold
InitQ ==
    /\ embedding_dim = EmbeddingDim
    /\ \E threshold \in Thresholds :
          config = [ConfigSingleton(MaxItems) EXCEPT !.similarity_threshold = threshold]
    /\ _items = <<>>
    /\ _observers = <<>>
    /\ similarity_strategy \in {CosineSimilarity, EuclideanSimilarity}
    /\ delivered = <<>>
    /\ pre_items = <<>>
    /\ last = Idle
    /\ threads = NoThreads

\* the store is filled and emptied by add and delete, one observer is
\* subscribed at most, and the store is queried
NextQ ==
    \/ last = Idle /\ _observers = <<>> /\ add_observer(LoggingObserver)
    \/ last = Idle /\ \E id \in Ids, vector \in GoodVectors, metadata \in OptMetas :
                         add(id, vector, metadata)
    \/ last = Idle /\ \E id \in Ids : delete(id)
    \/ last = Idle /\ \E query_vector \in QueryVectors, top_k \in TopKs,
                         filter \in OptFilters :
                         query(query_vector, top_k, filter)
    \/ Return

SpecQ == InitQ /\ [][NextQ]_vars

(* ---------------------------- the store queried after updates ---------- *)

\* as NextQ without observers, and the records are updated as well
NextTie ==
    \/ last = Idle /\ \E id \in Ids, vector \in GoodVectors, metadata \in OptMetas :
                         add(id, vector, metadata)
    \/ last = Idle /\ \E id \in Ids, vector \in {None} \cup {Some(v) : v \in GoodVectors},
                         metadata \in OptMetas :
                         update(id, vector, metadata)
    \/ last = Idle /\ \E id \in Ids : delete(id)
    \/ last = Idle /\ \E query_vector \in QueryVectors, top_k \in TopKs,
                         filter \in OptFilters :
                         query(query_vector, top_k, filter)
    \/ Return

SpecTie == InitQ /\ [][NextTie]_vars

(* ---------------------------- observers that raise ---------------------- *)

\* a store whose observers are LoggingObserver or an observer whose
\* on_data_change raises, filled by add and batch_add and emptied by delete
NextObs ==
    \/ last = Idle /\ add_observer(LoggingObserver)
    \/ last = Idle /\ add_observer(RaisingObserver)
    \/ last = Idle /\ \E id \in Ids, vector \in Vectors, metadata \in OptMetas :
                         add(id, vector, metadata)
    \/ last = Idle /\ \E id \in Ids : delete(id)
    \/ last = Idle /\ \E batch \in BatchInputs : batch_add(batch)
    \/ Return

SpecObs == Init /\ [][NextObs]_vars

(* ---------------------------- the configuration changed ----------------- *)

\* a caller assigns ConfigSingleton().max_items between two calls of the store
set_max_items(max_items) ==
    /\ max_items # config.max_items
    /\ config' = [config EXCEPT !.max_items = max_items]
    /\ UNCHANGED <<embedding_dim, _items, _observers, similarity_strategy,
                   delivered, pre_items, last, threads>>

\* a caller assigns ConfigSingleton().similarity_threshold between two calls
set_similarity_threshold(threshold) ==
    /\ threshold # config.similarity_threshold
    /\ config' = [config EXCEPT !.similarity_threshold = threshold]
    /\ UNCHANGED <<embedding_dim, _items, _observers, similarity_strategy,
                   delivered, pre_items, last, threads>>

\* a store constructed while the singleton holds ConstructionConfig
InitCfg ==
    /\ embedding_dim = EmbeddingDim
    /\ config = ConstructionConfig
    /\ _items = <<>>
    /\ _observers = <<>>
    /\ similarity_strategy = CosineSimilarity
    /\ delivered = <<>>
    /\ pre_items = <<>>
    /\ last = Idle
    /\ threads = NoThreads

\* the store is filled, emptied and queried, and between two calls the
\* attributes of the singleton are assigned
NextCfg ==
    \/ last = Idle /\ \E id \in Ids, vector \in GoodVectors, metadata \in OptMetas :
                         add(id, vector, metadata)
    \/ last = Idle /\ \E id \in Ids : delete(id)
    \/ last = Idle /\ \E query_vector \in QueryVectors, top_k \in 1..MaxTopK,
                         filter \in OptFilters :
                         query(query_vector, top_k, filter)
    \/ last = Idle /\ \E max_items \in 1..MaxItems : set_max_items(max_items)
    \/ last = Idle /\ \E threshold \in Thresholds : set_similarity_threshold(threshold)
    \/ Return

SpecCfg == InitCfg /\ [][NextCfg]_vars

(* ---------------------------- concurrent calls ------------------------- *)

\* the methods take no lock: a thread may be suspended between two statements
\* of a method, and the other thread then runs on the same dict and items

\* the thread runs one statement and becomes c
Step(t, c) == threads' = [threads EXCEPT ![t] = c]

\* the method is left by an exception
Raise(c, exc) == [c EXCEPT !.pc = "done", !.ret = "raised", !.exc = exc]

\* the method returns ret
ReturnOf(c, ret) == [c EXCEPT !.pc = "done", !.ret = ret]

\* add: if len(vector) != self.embedding_dim: raise ValueError
add_check_dimension(t) ==
    LET c == threads[t]
    IN  /\ c.op = "add" /\ c.pc = "check_dimension"
        /\ Step(t, IF DimensionMismatch(TheVal(c.vector))
                   THEN Raise(c, ValueError)
                   ELSE [c EXCEPT !.pc = "check_capacity"])
        /\ UNCHANGED <<embedding_dim, config, _items, _observers, similarity_strategy,
                       delivered, pre_items, last>>

\* add: if len(self._items) >= self._config.max_items: raise RuntimeError
add_check_capacity(t) ==
    LET c == threads[t]
    IN  /\ c.op = "add" /\ c.pc = "check_capacity"
        /\ Step(t, IF CapacityReached(_items)
                   THEN Raise([c EXCEPT !.seen_count = Len(_items)], RuntimeError)
                   ELSE [c EXCEPT !.pc = "store", !.seen_count = Len(_items)])
        /\ UNCHANGED <<embedding_dim, config, _items, _observers, similarity_strategy,
                       delivered, pre_items, last>>

\* add: item = VectorItem(id, vector, metadata); self._items[id] = item
add_store(t) ==
    LET c == threads[t]
    IN  /\ c.op = "add" /\ c.pc = "store"
        /\ _items' = DictSet(_items, c.id, VectorItem(c.id, TheVal(c.vector), c.metadata))
        /\ Step(t, [c EXCEPT !.pc = "notify"])
        /\ UNCHANGED <<embedding_dim, config, _observers, similarity_strategy,
                       delivered, pre_items, last>>

\* add: self._notify_observers("add", ...); return True
add_return(t) ==
    LET c == threads[t]
        n == _notify_observers(_items, _observers, "add",
                               [id |-> c.id, metadata |-> c.metadata])
    IN  /\ c.op = "add" /\ c.pc = "notify"
        /\ delivered' = [i \in 1..Len(_observers) |-> delivered[i] \o n.delivered[i]]
        /\ Step(t, IF n.raised THEN Raise(c, ObserverError) ELSE ReturnOf(c, "True"))
        /\ UNCHANGED <<embedding_dim, config, _items, _observers, similarity_strategy,
                       pre_items, last>>

\* update: if id not in self._items: return False; item = self._items[id]
update_lookup(t) ==
    LET c == threads[t]
    IN  /\ c.op = "update" /\ c.pc = "lookup"
        /\ Step(t, IF c.id \notin Keys(_items)
                   THEN ReturnOf(c, "False")
                   ELSE [c EXCEPT !.pc = "set_vector"])
        /\ UNCHANGED <<embedding_dim, config, _items, _observers, similarity_strategy,
                       delivered, pre_items, last>>

\* update: if vector is not None: (raise ValueError or) item.vector = vector
update_set_vector(t) ==
    LET c == threads[t]
        i == IndexOf(_items, c.id)
    IN  /\ c.op = "update" /\ c.pc = "set_vector"
        /\ IF c.vector # None /\ DimensionMismatch(TheVal(c.vector))
           THEN /\ Step(t, Raise(c, ValueError))
                /\ UNCHANGED _items
           ELSE /\ _items' = [_items EXCEPT ![i].vector = UpdatedVector(_items[i], c.vector)]
                /\ Step(t, [c EXCEPT !.pc = "set_metadata"])
        /\ UNCHANGED <<embedding_dim, config, _observers, similarity_strategy,
                       delivered, pre_items, last>>

\* update: if metadata is not None: item.metadata = metadata
update_set_metadata(t) ==
    LET c == threads[t]
        i == IndexOf(_items, c.id)
    IN  /\ c.op = "update" /\ c.pc = "set_metadata"
        /\ _items' = [_items EXCEPT ![i].metadata = UpdatedMetadata(_items[i], c.metadata)]
        /\ Step(t, [c EXCEPT !.pc = "notify"])
        /\ UNCHANGED <<embedding_dim, config, _observers, similarity_strategy,
                       delivered, pre_items, last>>

\* update: self._notify_observers("update", {"id": id}); return True
update_return(t) ==
    LET c == threads[t]
        n == _notify_observers(_items, _observers, "update", [id |-> c.id])
    IN  /\ c.op = "update" /\ c.pc = "notify"
        /\ delivered' = [i \in 1..Len(_observers) |-> delivered[i] \o n.delivered[i]]
        /\ Step(t, IF n.raised THEN Raise(c, ObserverError) ELSE ReturnOf(c, "True"))
        /\ UNCHANGED <<embedding_dim, config, _items, _observers, similarity_strategy,
                       pre_items, last>>

\* query: the for loop takes the next item of the dict, or is left
NextItem(c) ==
    IF c.pos >= Len(_items)
    THEN [c EXCEPT !.pc = "sort", !.similarity = None]
    ELSE [c EXCEPT !.pc = "filter", !.pos = @ + 1, !.similarity = None]

\* query: if len(query_vector) != self.embedding_dim: raise ValueError;
\* results = []
query_check_dimension(t) ==
    LET c == threads[t]
    IN  /\ c.op = "query" /\ c.pc = "check_dimension"
        /\ Step(t, IF DimensionMismatch(TheVal(c.vector))
                   THEN Raise(c, ValueError)
                   ELSE NextItem(c))
        /\ UNCHANGED <<embedding_dim, config, _items, _observers, similarity_strategy,
                       delivered, pre_items, last>>

\* query: if filter and not filter(item.metadata): continue
query_filter(t) ==
    LET c == threads[t]
    IN  /\ c.op = "query" /\ c.pc = "filter"
        /\ Step(t, IF Skipped(c.filter, _items[c.pos].metadata)
                   THEN NextItem(c)
                   ELSE [c EXCEPT !.pc = "score"])
        /\ UNCHANGED <<embedding_dim, config, _items, _observers, similarity_strategy,
                       delivered, pre_items, last>>

\* query: similarity = calculate(query_vector, item.vector);
\* if similarity >= self._config.similarity_threshold:
query_score(t) ==
    LET c == threads[t]
        similarity == Calculate(TheVal(c.vector), _items[c.pos].vector)
    IN  /\ c.op = "query" /\ c.pc = "score"
        /\ Step(t, IF AboveThreshold(similarity)
                   THEN [c EXCEPT !.pc = "append", !.similarity = Some(similarity)]
                   ELSE NextItem(c))
        /\ UNCHANGED <<embedding_dim, config, _items, _observers, similarity_strategy,
                       delivered, pre_items, last>>

\* query: results.append({"id": id, "similarity": similarity,
\*                        "metadata": item.metadata})
query_append(t) ==
    LET c == threads[t]
    IN  /\ c.op = "query" /\ c.pc = "append"
        /\ Step(t, NextItem([c EXCEPT !.results =
                               Append(@, [id         |-> _items[c.pos].id,
                                          similarity |-> TheVal(c.similarity),
                                          metadata   |-> _items[c.pos].metadata])]))
        /\ UNCHANGED <<embedding_dim, config, _items, _observers, similarity_strategy,
                       delivered, pre_items, last>>

\* query: results.sort(...); return results[:top_k]
query_return(t) ==
    LET c == threads[t]
    IN  /\ c.op = "query" /\ c.pc = "sort"
        /\ Step(t, ReturnOf([c EXCEPT !.results = SliceTo(SortBySimilarity(@), c.top_k)],
                            "list"))
        /\ UNCHANGED <<embedding_dim, config, _items, _observers, similarity_strategy,
                       delivered, pre_items, last>>

\* a thread enters add(id, vector)
AddCall(id, vector) ==
    [NoCall EXCEPT !.pc = "check_dimension", !.op = "add", !.id = id,
                   !.vector = Some(vector)]

\* a thread enters update(id, vector, metadata)
UpdateCall(id, vector, metadata) ==
    [NoCall EXCEPT !.pc = "lookup", !.op = "update", !.id = id,
                   !.vector = vector, !.metadata = metadata]

\* a thread enters query(query_vector, top_k, filter)
QueryCall(query_vector, top_k, filter) ==
    [NoCall EXCEPT !.pc = "check_dimension", !.op = "query",
                   !.vector = Some(query_vector), !.top_k = top_k, !.filter = filter]

\* two threads call add on the store at the same time
start_adds(id1, vector1, id2, vector2) ==
    /\ threads = NoThreads
    /\ threads' = [t \in Threads |-> IF t = "t1" THEN AddCall(id1, vector1)
                                      ELSE AddCall(id2, vector2)]
    /\ pre_items' = _items
    /\ UNCHANGED <<embedding_dim, config, _items, _observers, similarity_strategy,
                   delivered, last>>

\* one thread calls query while the other calls update
start_query_update(query_vector, top_k, filter, id, vector, metadata) ==
    /\ threads = NoThreads
    /\ threads' = [t \in Threads |-> IF t = "t1" THEN QueryCall(query_vector, top_k, filter)
                                      ELSE UpdateCall(id, vector, metadata)]
    /\ pre_items' = _items
    /\ UNCHANGED <<embedding_dim, config, _items, _observers, similarity_strategy,
                   delivered, last>>

\* both calls have returned and their threads are joined
join ==
    /\ \A t \in Threads : threads[t].pc = "done"
    /\ threads' = NoThreads
    /\ pre_items' = _items
    /\ UNCHANGED <<embedding_dim, config, _items, _observers, similarity_strategy,
                   delivered, last>>

\* a store with one slot less than MaxItems, so that two of the ids can be
\* fresh when one slot is left
InitPar ==
    /\ embedding_dim = EmbeddingDim
    /\ config = ConfigSingleton(MaxItems - 1)
    /\ _items = <<>>
    /\ _observers = <<>>
    /\ similarity_strategy = CosineSimilarity
    /\ delivered = <<>>
    /\ pre_items = <<>>
    /\ last = Idle
    /\ threads = NoThreads

\* the arguments of the concurrent calls
ParVectors == GoodVectors \cup {<<1>>}

ParQueryVectors == {<<1, 0>>, <<1>>}

ParFilters == {None, Some("has_k1")}

ParMetas == {Some({<<"k1", 1>>})}

NextPar ==
    \/ \E id1 \in Ids, vector1 \in ParVectors, id2 \in Ids, vector2 \in GoodVectors :
          start_adds(id1, vector1, id2, vector2)
    \/ \E query_vector \in ParQueryVectors, filter \in ParFilters,
          id \in Ids, vector \in {Some(v) : v \in ParVectors}, metadata \in ParMetas :
          start_query_update(query_vector, MaxTopK, filter, id, vector, metadata)
    \/ \E t \in Threads : add_check_dimension(t)
    \/ \E t \in Threads : add_check_capacity(t)
    \/ \E t \in Threads : add_store(t)
    \/ \E t \in Threads : add_return(t)
    \/ \E t \in Threads : update_lookup(t)
    \/ \E t \in Threads : update_set_vector(t)
    \/ \E t \in Threads : update_set_metadata(t)
    \/ \E t \in Threads : update_return(t)
    \/ \E t \in Threads : query_check_dimension(t)
    \/ \E t \in Threads : query_filter(t)
    \/ \E t \in Threads : query_score(t)
    \/ \E t \in Threads : query_append(t)
    \/ \E t \in Threads : query_return(t)
    \/ join

SpecPar == InitPar /\ [][NextPar]_vars

(* ---------------------------- properties ------------------------------- *)

\* the last call was ChromaVectorDB.add with a vector of the right length
AddOfGoodVector ==
    /\ last.op = "add"
    /\ Len(TheVal(last.vector)) = embedding_dim

\* the records of `items` other than the one of `id`
Others(items, id) == {items[i] : i \in {j \in 1..Len(items) : items[j].id # id}}

\* no observer received anything during the last call
NothingDelivered == \A i \in 1..Len(_observers) : delivered[i] = <<>>

\* every subscribed observer received exactly one event during the last call,
\* of the given type and about the id of the call
OneEventDelivered(event_type) ==
    \A i \in 1..Len(_observers) :
        /\ Len(delivered[i]) = 1
        /\ delivered[i][1].type = event_type
        /\ delivered[i][1].data.id = last.id

\* C1: whatever calls were made, count() never exceeds the configured max_items.
C1_CountWithinMaxItems == count <= config.max_items

\* a batch_add has filled the store and had an item refused for capacity
C1_Witness ==
    /\ last.op = "batch_add"
    /\ count = config.max_items
    /\ Len(pre_items) < config.max_items
    /\ \E k \in 1..Len(last.report.failed_items) :
          last.report.failed_items[k].error = CapacityMsg

\* C2: every record held by the store has a vector of length embedding_dim,
\* after calls that succeeded and after calls that failed.
C2_StoredVectorsHaveDimension ==
    \A i \in 1..Len(_items) : Len(_items[i].vector) = embedding_dim

\* an update of a stored record with a vector of the wrong length has failed
C2_Witness ==
    /\ last.op = "update"
    /\ last.exc = ValueError
    /\ last.id \in Keys(_items)
    /\ Len(TheVal(last.vector)) # embedding_dim

\* C3: add called with a vector of the right length while count() equals
\* max_items raises the capacity error and leaves the store as it was, for an
\* id that is stored and for one that is not.
C3_AddWhenFullFails ==
    (AddOfGoodVector /\ Len(pre_items) = config.max_items)
        => /\ last.exc = RuntimeError
           /\ last.ret = "raised"
           /\ _items = pre_items
           /\ NothingDelivered

\* add was called with an id the store holds, on a full store that does not
\* hold every id, with an observer subscribed
C3_Witness ==
    /\ AddOfGoodVector
    /\ Len(pre_items) = config.max_items
    /\ last.id \in Keys(pre_items)
    /\ Keys(pre_items) # Ids
    /\ _observers # <<>>

\* C4: add with a vector whose length differs from embedding_dim raises the
\* dimension error in every store state, a full store included, and count()
\* stays what it was.
C4_AddOfBadVectorFails ==
    (last.op = "add" /\ Len(TheVal(last.vector)) # embedding_dim)
        => /\ last.exc = ValueError
           /\ last.ret = "raised"
           /\ Len(_items) = Len(pre_items)

\* add was called with a vector of the wrong length on a full store
C4_Witness ==
    /\ last.op = "add"
    /\ Len(TheVal(last.vector)) # embedding_dim
    /\ Len(pre_items) = config.max_items

\* the metadata a record is expected to hold after add was given `metadata`:
\* the mapping itself, the empty mapping when none was given
GivenMetadata(metadata) == IF metadata = None THEN {} ELSE TheVal(metadata)

\* C5: after a successful add under an id that was not stored, get(id)
\* returns a record with exactly the vector and the metadata of the call.
C5_GetAfterAddOfFreshId ==
    (last.op = "add" /\ last.exc = NoExc /\ last.id \notin Keys(pre_items))
        => \E item \in get(last.id) :
              /\ item.id = last.id
              /\ item.vector = TheVal(last.vector)
              /\ item.metadata = GivenMetadata(last.metadata)

\* a fresh id was added with a non-empty metadata mapping to a non-empty store
C5_Witness ==
    /\ last.op = "add"
    /\ last.exc = NoExc
    /\ last.id \notin Keys(pre_items)
    /\ pre_items # <<>>
    /\ last.metadata # None
    /\ TheVal(last.metadata) # {}

\* every record of pre_items other than the one of `id` is still where it was
OthersUntouched(id) ==
    /\ Len(_items) = Len(pre_items)
    /\ \A j \in 1..Len(pre_items) :
          IF pre_items[j].id = id THEN _items[j].id = id ELSE _items[j] = pre_items[j]

\* the record pre_items held under `id`
Before(id) == pre_items[CHOOSE j \in 1..Len(pre_items) : pre_items[j].id = id]

\* the record _items holds under `id`
After(id) == _items[CHOOSE j \in 1..Len(_items) : _items[j].id = id]

\* C6: add under an id that is already stored (vector of the right length,
\* count() below max_items) is not refused: it returns True, the record of
\* the id holds the new vector and the new metadata, count() and every other
\* record are unchanged, and each observer receives one "add" event.
C6_AddOverwritesStoredId ==
    (AddOfGoodVector /\ last.id \in Keys(pre_items) /\ Len(pre_items) < config.max_items)
        => /\ last.exc = NoExc
           /\ last.ret = "True"
           /\ OthersUntouched(last.id)
           /\ After(last.id).vector = TheVal(last.vector)
           /\ After(last.id).metadata = GivenMetadata(last.metadata)
           /\ OneEventDelivered("add")

\* a stored record was overwritten with another vector and other metadata
\* while the store held a second record and an observer was subscribed
C6_Witness ==
    /\ AddOfGoodVector
    /\ last.id \in Keys(pre_items)
    /\ Len(pre_items) < config.max_items
    /\ Len(pre_items) >= 2
    /\ Before(last.id).vector # TheVal(last.vector)
    /\ Before(last.id).metadata # GivenMetadata(last.metadata)
    /\ _observers # <<>>

\* C7: update on an id that is not stored returns False, delivers no event
\* and leaves the store as it was, whatever vector and metadata it is given.
C7_UpdateOfAbsentIdIsNoOp ==
    (last.op = "update" /\ last.id \notin Keys(pre_items))
        => /\ last.ret = "False"
           /\ last.exc = NoExc
           /\ NothingDelivered
           /\ _items = pre_items

\* update was called on an absent id with a vector of the wrong length and
\* with metadata, on a non-empty store with an observer
C7_Witness ==
    /\ last.op = "update"
    /\ last.id \notin Keys(pre_items)
    /\ last.vector # None
    /\ Len(TheVal(last.vector)) # embedding_dim
    /\ last.metadata # None
    /\ pre_items # <<>>
    /\ _observers # <<>>

\* the last call was an update of a stored id with a vector of the wrong length
UpdateWithBadVector ==
    /\ last.op = "update"
    /\ last.id \in Keys(pre_items)
    /\ last.vector # None
    /\ Len(TheVal(last.vector)) # embedding_dim

\* C8: update of a stored id with a vector of the wrong length raises the
\* dimension error, leaves vector and metadata of the record as they were even
\* when metadata was supplied too, and delivers no event.
C8_UpdateWithBadVectorChangesNothing ==
    UpdateWithBadVector
        => /\ last.exc = ValueError
           /\ last.ret = "raised"
           /\ _items = pre_items
           /\ NothingDelivered

\* such an update also carried metadata other than the record's, and an
\* observer was subscribed
C8_Witness ==
    /\ UpdateWithBadVector
    /\ last.metadata # None
    /\ TheVal(last.metadata) # Before(last.id).metadata
    /\ _observers # <<>>

\* the last call was an update that returned True
UpdateSucceeded == last.op = "update" /\ last.ret = "True"

\* C9: after a successful update the record holds the supplied vector, or its
\* old one when none was supplied, and exactly the supplied metadata mapping,
\* or its old one when none was supplied; no other record and not count()
\* have changed, and each observer receives one "update" event.
C9_UpdateReplacesSuppliedFields ==
    UpdateSucceeded
        => /\ last.id \in Keys(pre_items)
           /\ OthersUntouched(last.id)
           /\ After(last.id).vector =
                 (IF last.vector = None THEN Before(last.id).vector
                  ELSE TheVal(last.vector))
           /\ After(last.id).metadata =
                 (IF last.metadata = None THEN Before(last.id).metadata
                  ELSE TheVal(last.metadata))
           /\ OneEventDelivered("update")

\* an update supplied only metadata, a mapping without a key the old mapping
\* had, while the store held a second record and an observer was subscribed
C9_Witness ==
    /\ UpdateSucceeded
    /\ last.vector = None
    /\ last.metadata # None
    /\ \E kv \in Before(last.id).metadata :
          \A new \in TheVal(last.metadata) : new[1] # kv[1]
    /\ Len(pre_items) >= 2
    /\ _observers # <<>>

\* C10: delete of a stored id returns True, removes that record and no other,
\* delivers one "delete" event to each observer and get(id) then returns None;
\* delete of an id that is not stored returns False, changes nothing and
\* delivers nothing.
C10_DeleteRemovesExactlyOne ==
    last.op = "delete"
        => IF last.id \in Keys(pre_items)
           THEN /\ last.ret = "True"
                /\ last.exc = NoExc
                /\ count = Len(pre_items) - 1
                /\ {_items[i] : i \in 1..Len(_items)} = Others(pre_items, last.id)
                /\ get(last.id) = None
                /\ OneEventDelivered("delete")
           ELSE /\ last.ret = "False"
                /\ last.exc = NoExc
                /\ _items = pre_items
                /\ NothingDelivered

\* a record was deleted from a store that held two more, with an observer
C10_Witness ==
    /\ last.op = "delete"
    /\ last.id \in Keys(pre_items)
    /\ Len(pre_items) >= 3
    /\ _observers # <<>>

\* C11: clear() on a store that holds at least one record brings count() to 0
\* and each subscribed observer receives exactly one "clear" event, however
\* many records were removed.
C11_ClearEmitsOneEvent ==
    (last.op = "clear" /\ Len(pre_items) >= 1)
        => /\ count = 0
           /\ last.exc = NoExc
           /\ \A i \in 1..Len(_observers) :
                 /\ Len(delivered[i]) = 1
                 /\ delivered[i][1].type = "clear"
                 /\ delivered[i][1].data = [message |-> "Database cleared"]

\* a store with three records was cleared while two observers were subscribed
C11_Witness ==
    /\ last.op = "clear"
    /\ Len(pre_items) >= 3
    /\ Len(_observers) >= 2
    /\ count = 0

\* the last call was a query that returned its list
QueryReturned == last.op = "query" /\ last.exc = NoExc

\* the number of stored records the filter of the last query lets through and
\* whose similarity to its vector reaches the threshold
Survivors ==
    Cardinality({i \in 1..Len(_items) :
        /\ last.filter # None => FilterAccepts(TheVal(last.filter), _items[i].metadata)
        /\ AtLeast(Calculate(TheVal(last.vector), _items[i].vector),
                   config.similarity_threshold)})

\* C12: query(q, top_k=k) never returns more than k entries (none when k is
\* negative), every entry has a similarity >= the configured threshold, and
\* the entries are in descending order of similarity.
C12_QueryAtMostKAboveFloorSorted ==
    QueryReturned
        => /\ Len(last.results) <= (IF last.top_k > 0 THEN last.top_k ELSE 0)
           /\ \A k \in 1..Len(last.results) :
                 AtLeast(last.results[k].similarity, config.similarity_threshold)
           /\ \A k \in 1..Len(last.results), l \in 1..Len(last.results) :
                 k < l => ScoreGE(last.results[k].similarity, last.results[l].similarity)

\* C13: query returns min(top_k, number of survivors) entries when top_k > 0
\* and the empty list when top_k <= 0, zero and negative.
C13_QueryReturnsFirstTopK ==
    QueryReturned
        => IF last.top_k > 0
           THEN Len(last.results) = (IF last.top_k < Survivors THEN last.top_k ELSE Survivors)
           ELSE last.results = <<>>

\* C19: a query changes nothing: the records and their order, the observer
\* list, the dimension, the configuration and the strategy are after the call
\* what they were before, no observer receives anything, and a query vector of
\* the wrong length raises the dimension error and returns no result.
C19_QueryDoesNotMutate ==
    [][last'.op = "query"
         => /\ _items' = _items
            /\ _observers' = _observers
            /\ embedding_dim' = embedding_dim
            /\ config' = config
            /\ similarity_strategy' = similarity_strategy
            /\ \A i \in 1..Len(_observers') : delivered'[i] = <<>>
            /\ Len(TheVal(last'.vector)) # embedding_dim
                  => (last'.exc = ValueError /\ last'.results = <<>>)
            /\ Len(TheVal(last'.vector)) = embedding_dim => last'.exc = NoExc]_vars

\* a query with a filter has returned entries from a store with records and
\* an observer
C19_Witness ==
    /\ QueryReturned
    /\ last.results # <<>>
    /\ last.filter # None
    /\ Len(_items) >= 2
    /\ _observers # <<>>

\* C20: no record whose metadata the filter rejects is in the result, every
\* entry carries the id and the current metadata of a stored record, no record
\* appears twice, and without a filter every stored record is scored: with
\* top_k >= count() the result holds exactly the records that reach the
\* threshold.
C20_QueryFilterAndEntries ==
    QueryReturned
        => /\ \A k \in 1..Len(last.results) :
                 /\ last.results[k].id \in Keys(_items)
                 /\ last.results[k].metadata = After(last.results[k].id).metadata
                 /\ last.results[k].similarity =
                       Calculate(TheVal(last.vector), After(last.results[k].id).vector)
                 /\ last.filter # None
                       => FilterAccepts(TheVal(last.filter), last.results[k].metadata)
                 /\ \A l \in 1..Len(last.results) :
                       last.results[l].id = last.results[k].id => l = k
           /\ (last.filter = None /\ last.top_k >= count)
                 => {last.results[k].id : k \in 1..Len(last.results)}
                       = {_items[i].id : i \in {j \in 1..Len(_items) :
                            AtLeast(Calculate(TheVal(last.vector), _items[j].vector),
                                    config.similarity_threshold)}}

\* a query filtered on the key k1 has returned an entry while the store also
\* held a record without that key that reaches the threshold
C20_Witness ==
    /\ QueryReturned
    /\ last.filter = Some("has_k1")
    /\ last.results # <<>>
    /\ \E i \in 1..Len(_items) :
          /\ _items[i].metadata = {}
          /\ AtLeast(Calculate(TheVal(last.vector), _items[i].vector),
                     config.similarity_threshold)

\* the last call was one of the calls that publish events
MutatingCall == last.op \in {"add", "update", "delete", "clear", "batch_add"}

\* the number of events the last call published: one per mutation it applied
Published ==
    IF last.op = "batch_add" THEN last.report.success_count
    ELSE IF last.op = "clear" THEN 1
    ELSE IF last.op \in {"add", "update", "delete"} /\ last.ret = "True" THEN 1
    ELSE 0

\* C14: when a mutating call has returned, every observer subscribed has
\* received every event the call published, once, the same events in the same
\* order as the other observers, and was called in its turn: the i-th
\* subscribed observer as the i-th.
C14_DeliveredToAllInSubscriptionOrder ==
    MutatingCall
        => /\ Len(delivered) = Len(_observers)
           /\ \A i \in 1..Len(_observers) :
                 /\ Len(delivered[i]) = Published
                 /\ \A k \in 1..Len(delivered[i]) :
                       /\ delivered[i][k].turn = i
                       /\ delivered[i][k].type = delivered[1][k].type
                       /\ delivered[i][k].data = delivered[1][k].data

\* a batch_add that inserted two records has returned with two observers
\* subscribed
C14_Witness ==
    /\ last.op = "batch_add"
    /\ Len(_observers) = 2
    /\ Published >= 2

RECURSIVE IsSubseq(_, _)
\* s is t with some elements left out
IsSubseq(s, t) ==
    IF s = <<>> THEN TRUE
    ELSE IF t = <<>> THEN FALSE
    ELSE IF Head(s) = Head(t) THEN IsSubseq(Tail(s), Tail(t)) \/ IsSubseq(s, Tail(t))
    ELSE IsSubseq(s, Tail(t))

\* the store an observer sees when it receives `event` reflects the mutation
\* the event is about
SeenReflects(event) ==
    IF event.type = "add"
    THEN \E item \in DictGet(event.seen, event.data.id) :
            item.metadata = GivenMetadata(event.data.metadata)
    ELSE IF event.type = "delete" THEN event.data.id \notin Keys(event.seen)
    ELSE IF event.type = "clear" THEN event.seen = <<>>
    ELSE event.data.id \in Keys(event.seen)

\* C15: an observer receives one event per mutation that was applied and none
\* for a call that raised or returned False (update or delete of an absent
\* id), the events of a batch in the order of its items; and when an event
\* arrives the store reflects the mutation: the added record is there, the
\* deleted id is not, the cleared store is empty.  The last event of a call
\* sees the store as the call leaves it.
C15_OneEventPerMutationStoreFirst ==
    MutatingCall
        => \A i \in 1..Len(_observers) :
              /\ Len(delivered[i]) = Published
              /\ last.op = "add" /\ last.exc # NoExc => delivered[i] = <<>>
              /\ last.op \in {"update", "delete"} /\ last.ret # "True"
                    => delivered[i] = <<>>
              /\ last.op \in {"add", "update", "delete"} /\ last.ret = "True"
                    => /\ delivered[i][1].type = last.op
                       /\ delivered[i][1].data.id = last.id
              /\ last.op = "add" /\ last.ret = "True"
                    => \E item \in DictGet(delivered[i][1].seen, last.id) :
                          /\ item.vector = TheVal(last.vector)
                          /\ item.metadata = GivenMetadata(last.metadata)
              /\ last.op = "clear" => delivered[i][1].type = "clear"
              /\ last.op = "batch_add"
                    => /\ \A k \in 1..Len(delivered[i]) : delivered[i][k].type = "add"
                       /\ IsSubseq([k \in 1..Len(delivered[i]) |-> delivered[i][k].data],
                                   [k \in 1..Len(last.batch) |->
                                      [id |-> last.batch[k].id,
                                       metadata |-> last.batch[k].metadata]])
              /\ \A k \in 1..Len(delivered[i]) : SeenReflects(delivered[i][k])
              /\ delivered[i] # <<>> => delivered[i][Len(delivered[i])].seen = _items

\* an observer has received the event of an add under a fresh id
C15_Witness ==
    /\ last.op = "add"
    /\ last.ret = "True"
    /\ last.id \notin Keys(pre_items)
    /\ pre_items # <<>>
    /\ _observers # <<>>

\* the entries batch_add is expected to report for `todo` when the store holds
\* the ids `keys`: an item of the wrong dimension fails with the dimension
\* text, an item that finds the store full fails with the capacity text
RECURSIVE ExpectedFailed(_, _)
ExpectedFailed(keys, todo) ==
    IF todo = <<>> THEN <<>>
    ELSE IF Len(Head(todo).vector) # embedding_dim
    THEN <<[id |-> Head(todo).id, error |-> DimensionMsg]>>
            \o ExpectedFailed(keys, Tail(todo))
    ELSE IF Cardinality(keys) >= config.max_items
    THEN <<[id |-> Head(todo).id, error |-> CapacityMsg]>>
            \o ExpectedFailed(keys, Tail(todo))
    ELSE ExpectedFailed(keys \cup {Head(todo).id}, Tail(todo))

\* the ids the store is expected to hold after batch_add of `todo`
RECURSIVE ExpectedKeys(_, _)
ExpectedKeys(keys, todo) ==
    IF todo = <<>> THEN keys
    ELSE IF Len(Head(todo).vector) # embedding_dim \/ Cardinality(keys) >= config.max_items
    THEN ExpectedKeys(keys, Tail(todo))
    ELSE ExpectedKeys(keys \cup {Head(todo).id}, Tail(todo))

\* C16: batch_add returns a report for every input: every item is tried in
\* input order whatever happened to the items before it, success_count plus
\* the number of failed entries is the number of items, and the failed entries
\* are exactly the failing items, in order, with their id and error text.
C16_BatchAlwaysReports ==
    last.op = "batch_add"
        => /\ last.exc = NoExc
           /\ last.report.success_count + Len(last.report.failed_items) = Len(last.batch)
           /\ last.report.failed_count = Len(last.report.failed_items)
           /\ last.report.failed_items = ExpectedFailed(Keys(pre_items), last.batch)
           /\ Keys(_items) = ExpectedKeys(Keys(pre_items), last.batch)

\* three items of the right dimension were inserted after the item of the
\* wrong dimension that came first, which is the one failed entry
C16_Witness ==
    /\ last.op = "batch_add"
    /\ Len(last.batch) = 4
    /\ Len(last.batch[1].vector) # embedding_dim
    /\ last.report.success_count = 3
    /\ last.report.failed_items = <<[id |-> last.batch[1].id, error |-> DimensionMsg]>>

\* the last call was a batch_add of items of the right dimension under
\* pairwise distinct ids that the store did not hold
BatchOfFreshItems ==
    /\ last.op = "batch_add"
    /\ \A k \in 1..Len(last.batch) :
          /\ Len(last.batch[k].vector) = embedding_dim
          /\ last.batch[k].id \notin Keys(pre_items)
          /\ \A l \in 1..Len(last.batch) : last.batch[l].id = last.batch[k].id => l = k

\* the number of free slots when the last call started
FreeSlots == config.max_items - Len(pre_items)

\* the number of items of the last batch that found a free slot
Inserted == IF Len(last.batch) < FreeSlots THEN Len(last.batch) ELSE FreeSlots

\* C17: a batch of fresh items of the right dimension run against a store with
\* r free slots inserts exactly its first r items, in input order, and reports
\* every later item as failed with the capacity error; count() is max_items
\* afterwards when the batch has at least r items.
C17_BatchFirstComeFirstServed ==
    BatchOfFreshItems
        => /\ Len(_items) = Len(pre_items) + Inserted
           /\ SubSeq(_items, 1, Len(pre_items)) = pre_items
           /\ \A k \in 1..Inserted :
                 /\ _items[Len(pre_items) + k].id = last.batch[k].id
                 /\ _items[Len(pre_items) + k].vector = last.batch[k].vector
                 /\ _items[Len(pre_items) + k].metadata
                       = GivenMetadata(last.batch[k].metadata)
           /\ last.report.success_count = Inserted
           /\ last.report.failed_items =
                 [k \in 1..(Len(last.batch) - Inserted) |->
                    [id |-> last.batch[Inserted + k].id, error |-> CapacityMsg]]
           /\ Len(last.batch) >= FreeSlots => count = config.max_items

\* a batch of two fresh items was run against a non-empty store with one free
\* slot
C17_Witness ==
    /\ BatchOfFreshItems
    /\ pre_items # <<>>
    /\ FreeSlots = 1
    /\ Len(last.batch) = 2

\* the number of stored records the filter of the last query lets through and
\* whose similarity to its vector reaches `threshold`
SurvivorsAt(threshold) ==
    Cardinality({i \in 1..Len(_items) :
        /\ last.filter # None => FilterAccepts(TheVal(last.filter), _items[i].metadata)
        /\ AtLeast(Calculate(TheVal(last.vector), _items[i].vector), threshold)})

\* the last call behaved as the configuration `cfg` demands: an add of a
\* vector of the right length was accepted exactly when the store held fewer
\* than cfg.max_items records, and a query with a positive top_k returned the
\* first top_k of the records that reach cfg.similarity_threshold
LimitsEnforced(cfg) ==
    /\ AddOfGoodVector => (last.exc = NoExc <=> Len(pre_items) < cfg.max_items)
    /\ QueryReturned /\ last.top_k > 0
          => /\ \A k \in 1..Len(last.results) :
                   AtLeast(last.results[k].similarity, cfg.similarity_threshold)
             /\ Len(last.results) =
                   (IF last.top_k < SurvivorsAt(cfg.similarity_threshold)
                    THEN last.top_k ELSE SurvivorsAt(cfg.similarity_threshold))

IdsInOrder(items) == [i \in 1..Len(items) |-> items[i].id]

\* two entries of a result list have the same similarity
Tie(e1, e2) == ScoreGE(e1.similarity, e2.similarity) /\ ScoreGE(e2.similarity, e1.similarity)

\* C23: among the entries a query returns with equal similarity, an entry
\* comes before another exactly as its id comes before the other's in the
\* store, and the order of the ids in the store is the order of their first
\* insertion: an add of a stored id and an update leave the order as it is, an
\* add of a fresh id puts it last, a delete takes the id out (so that adding it
\* again puts it last).
C23_TiesInInsertionOrder ==
    /\ QueryReturned
          => \A k \in 1..Len(last.results), l \in 1..Len(last.results) :
                k < l /\ Tie(last.results[k], last.results[l])
                   => IndexOf(_items, last.results[k].id)
                         < IndexOf(_items, last.results[l].id)
    /\ last.op = "add" /\ last.ret = "True"
          => IdsInOrder(_items) = (IF last.id \in Keys(pre_items)
                                   THEN IdsInOrder(pre_items)
                                   ELSE Append(IdsInOrder(pre_items), last.id))
    /\ last.op = "update" /\ last.ret = "True"
          => IdsInOrder(_items) = IdsInOrder(pre_items)
    /\ last.op = "delete" /\ last.ret = "True"
          => IdsInOrder(_items) = SelectSeq(IdsInOrder(pre_items), LAMBDA id : id # last.id)

\* a query returned "b" before "a" with the same similarity, "b" being before
\* "a" in the store
C23_Witness ==
    /\ QueryReturned
    /\ \E k \in 1..Len(last.results), l \in 1..Len(last.results) :
          /\ k < l
          /\ Tie(last.results[k], last.results[l])
          /\ last.results[k].id = "b"
          /\ last.results[l].id = "a"

\* the ids the report of the last batch_add lists as failed
FailedIds ==
    {last.report.failed_items[k].id : k \in 1..Len(last.report.failed_items)}

\* the items of the last batch the report does not list as failed, in order
Succeeded == SelectSeq(last.batch, LAMBDA item : item.id \notin FailedIds)

\* `items` after the records of `todo` were written to it in order
RECURSIVE Written(_, _)
Written(items, todo) ==
    IF todo = <<>> THEN items
    ELSE Written(DictSet(items, Head(todo).id,
                         VectorItem(Head(todo).id, Head(todo).vector, Head(todo).metadata)),
                 Tail(todo))

\* the last call was a batch_add of items under pairwise distinct ids, so that
\* the ids of the failed list tell which items failed
BatchOfDistinctIds ==
    /\ last.op = "batch_add"
    /\ \A k \in 1..Len(last.batch), l \in 1..Len(last.batch) :
          last.batch[k].id = last.batch[l].id => k = l

\* C24: after a batch_add, whatever the subscribed observers do, the store
\* holds the records it held before with the records of the items that are
\* not in the failed list written to it, and nothing of a failed item;
\* success_count is the number of items whose record was written.
C24_FailedItemsLeaveStoreAlone ==
    BatchOfDistinctIds
        => /\ _items = Written(pre_items, Succeeded)
           /\ last.report.success_count = Len(Succeeded)

\* C21: two concurrent adds under distinct fresh ids never both pass the
\* capacity check with max_items - 1 records in the store and leave the store
\* with more than max_items records.
C21_CapacityCheckAtomicWithInsert ==
    LET c1 == threads["t1"]
        c2 == threads["t2"]
    IN  ~ /\ c1.op = "add" /\ c1.pc = "done" /\ c1.ret = "True"
          /\ c2.op = "add" /\ c2.pc = "done" /\ c2.ret = "True"
          /\ c1.id # c2.id
          /\ c1.id \notin Keys(pre_items)
          /\ c2.id \notin Keys(pre_items)
          /\ c1.seen_count = config.max_items - 1
          /\ c2.seen_count = config.max_items - 1
          /\ Len(_items) > config.max_items

\* C22: when a query has run concurrently with an update that gives a stored
\* record a new vector and new metadata, every entry of the query's result for
\* that record has the similarity of the old vector with the old metadata, or
\* the similarity of the new vector with the new metadata.
C22_QueryNeverSeesHalfUpdatedRecord ==
    LET q == threads["t1"]
        u == threads["t2"]
    IN  /\ q.op = "query" /\ q.pc = "done" /\ q.exc = NoExc
        /\ u.op = "update" /\ u.vector # None /\ u.metadata # None
        /\ u.id \in Keys(pre_items)
        => \A k \in 1..Len(q.results) :
              q.results[k].id = u.id
                 => LET old == pre_items[IndexOf(pre_items, u.id)]
                    IN  \/ /\ q.results[k].similarity
                                 = Calculate(TheVal(q.vector), old.vector)
                           /\ q.results[k].metadata = old.metadata
                        \/ /\ q.results[k].similarity
                                 = Calculate(TheVal(q.vector), TheVal(u.vector))
                           /\ q.results[k].metadata = TheVal(u.metadata)

====
